---- MODULE Spec2Model ----
(***************************************************************************)
(* Model of the stytra stimulus engine:                                    *)
(*   - ClosedLoop1D.update      (stimuli/closed_loop.py)                   *)
(*   - CenteringWrapper         (stimuli/closed_loop.py)                   *)
(*   - ShockStimulus            (stimuli.py)                               *)
(* Python floats are modelled as tagged values <<tag, n>> so that NaN and  *)
(* the infinities follow IEEE-754 rules instead of integer arithmetic.     *)
(***************************************************************************)
EXTENDS Integers, Sequences, FiniteSets, TLC

VARIABLES cl, cw, sh, mc, tr

vars == <<cl, cw, sh, mc, tr>>

----------------------------------------------------------------------------
(* Bounds of the exploration *)

MaxUpdates == 3
MaxElapsed == 3
MaxWUpdates == 3
MaxWElapsed == 3
MaxShockTicks == 2
MaxFrames == 2
MaxMCTicks == 3
MaxGets == 2
MaxTUpdates == 3

----------------------------------------------------------------------------
(* Python values: floats (finite, NaN, +inf, -inf) and None *)

Fin(n) == <<"fin", n>>
NaN == <<"nan", 0>>
PInf == <<"inf", 1>>
NInf == <<"inf", -1>>
None == <<"none", 0>>

IsNone(a) == a[1] = "none"
IsNaN(a) == a[1] = "nan"
IsInf(a) == a[1] = "inf"
IsFinite(a) == a[1] = "fin"

Sign(a) == IF IsInf(a) THEN a[2]
           ELSE IF a[2] > 0 THEN 1 ELSE IF a[2] < 0 THEN -1 ELSE 0

Rank(a) == IF IsInf(a) THEN a[2] ELSE 0

FNeg(a) == IF IsNaN(a) THEN NaN ELSE <<a[1], 0 - a[2]>>

FMul(a, b) ==
    IF IsNaN(a) \/ IsNaN(b) THEN NaN
    ELSE IF IsFinite(a) /\ IsFinite(b) THEN Fin(a[2] * b[2])
    ELSE IF Sign(a) * Sign(b) = 0 THEN NaN
    ELSE <<"inf", Sign(a) * Sign(b)>>

FAdd(a, b) ==
    IF IsNaN(a) \/ IsNaN(b) THEN NaN
    ELSE IF IsFinite(a) /\ IsFinite(b) THEN Fin(a[2] + b[2])
    ELSE IF IsInf(a) /\ IsInf(b) THEN (IF a[2] = b[2] THEN a ELSE NaN)
    ELSE IF IsInf(a) THEN a ELSE b

FSub(a, b) == FAdd(a, FNeg(b))

FLt(a, b) ==
    /\ ~IsNaN(a)
    /\ ~IsNaN(b)
    /\ IF IsFinite(a) /\ IsFinite(b) THEN a[2] < b[2] ELSE Rank(a) < Rank(b)

FGt(a, b) == FLt(b, a)

FEq(a, b) == ~IsNaN(a) /\ ~IsNaN(b) /\ a = b

BoolInt(b) == IF b THEN Fin(1) ELSE Fin(0)

----------------------------------------------------------------------------
(* ClosedLoop1D *)

VelClamp == 50

BaseVels == {Fin(0), Fin(10)}
Gains == {Fin(1), Fin(2)}
Thresholds == {Fin(-6)}
FixedVels == {None, Fin(5), Fin(60)}
Readings == {Fin(-50), Fin(-10), Fin(-6), Fin(1), NaN, PInf, NInf}

CLConstruct(bv, g, s, th, fx) ==
    [ base_vel |-> bv, fish_velocity |-> Fin(0), vel |-> bv, gain |-> g,
      swimming_threshold |-> th, fish_swimming |-> FALSE, shunting |-> s,
      shunted |-> FALSE, fixed_velocity |-> fx,
      bout_start |-> None, bout_stop |-> None,
      past_t |-> Fin(0), elapsed |-> Fin(0), dt |-> Fin(0), x |-> Fin(0),
      updates |-> 0 ]

\* super().update(): the interpolated parameters (base_vel) take the value
\* the parameter table gives for the current time, and dt is the time since
\* the previous update
InterpolatedUpdate(s, bv) ==
    [s EXCEPT !.dt = FSub(s.elapsed, s.past_t),
              !.past_t = s.elapsed,
              !.base_vel = bv]

ResetStep_KeepSwimming(s) ==
    IF FEq(s.base_vel, Fin(0))
    THEN [s EXCEPT !.shunted = FALSE]
    ELSE s

ResetStep(s) ==
    IF FEq(s.base_vel, Fin(0))
    THEN [s EXCEPT !.shunted = FALSE, !.fish_swimming = FALSE]
    ELSE s

LatchCondition_NoShuntingFlag(s) ==
    s.fish_swimming /\ FGt(s.fish_velocity, s.swimming_threshold)

LatchCondition(s) ==
    s.shunting /\ s.fish_swimming /\ FGt(s.fish_velocity, s.swimming_threshold)

ShuntedAfterLatch_Unlatch(s) ==
    IF LatchCondition(s) THEN TRUE
    ELSE IF FLt(s.fish_velocity, s.swimming_threshold) THEN FALSE
    ELSE s.shunted

ShuntedAfterLatch(s) == IF LatchCondition(s) THEN TRUE ELSE s.shunted

LatchStep(s) == [s EXCEPT !.shunted = ShuntedAfterLatch(s)]

BoutStep(s) ==
    IF FLt(s.fish_velocity, s.swimming_threshold)
    THEN [s EXCEPT !.fish_swimming = TRUE,
                   !.bout_start = IF IsNone(s.bout_start) THEN s.elapsed
                                  ELSE s.bout_start,
                   !.bout_stop = None]
    ELSE [s EXCEPT !.bout_start = s.elapsed,
                   !.fish_swimming = FALSE]

CommandedVel_NoSwimGate(s) ==
    IF IsNone(s.fixed_velocity)
    THEN FMul(BoolInt(~s.shunted),
              FSub(s.base_vel, FMul(s.fish_velocity, s.gain)))
    ELSE IF s.fish_swimming /\ ~FEq(s.base_vel, Fin(0))
         THEN s.fixed_velocity
         ELSE s.base_vel

CommandedVel(s) ==
    IF IsNone(s.fixed_velocity)
    THEN FMul(BoolInt(~s.shunted),
              FSub(s.base_vel,
                   FMul(FMul(s.fish_velocity, s.gain),
                        BoolInt(s.fish_swimming))))
    ELSE IF s.fish_swimming /\ ~FEq(s.base_vel, Fin(0))
         THEN s.fixed_velocity
         ELSE s.base_vel

Clamp_Saturate(v) ==
    IF IsNone(v) THEN Fin(0) ELSE v

Clamp(v) ==
    IF IsNone(v) \/ FGt(v, Fin(VelClamp)) THEN Fin(0) ELSE v

VelStep(s) == [s EXCEPT !.vel = Clamp(CommandedVel(s))]

IntegrateStep(s) == [s EXCEPT !.x = FAdd(s.x, FMul(s.dt, s.vel))]

\* ClosedLoop1D.update with the estimator returning fv and the parameter
\* table giving bv
CLUpdateResult(s, bv, fv) ==
    LET s1 == InterpolatedUpdate(s, bv)
        s2 == [s1 EXCEPT !.fish_velocity = fv]
        s3 == ResetStep(s2)
        s4 == LatchStep(s3)
        s5 == BoutStep(s4)
        s6 == VelStep(s5)
        s7 == IntegrateStep(s6)
    IN [s7 EXCEPT !.updates = s.updates + 1]

----------------------------------------------------------------------------
(* CenteringWrapper *)

DefaultXc == 320
DefaultYc == 240

\* paint() sets the centre to (w / 2, h / 2); the viewport sizes are even,
\* so the halves are whole pixels
Margins == {2, 3}
PaintWidths == {640, 644}
PaintHeights == {480, 486}

\* estimator.get_position() results as <<y, x>> (theta is not used by the
\* wrapper): the no-fish sentinel, no estimate, and valid positions
WReadings ==
    { <<Fin(-1), Fin(-1)>>, <<NaN, NaN>>,
      <<Fin(240), Fin(320)>>, <<Fin(240), Fin(322)>>,
      <<Fin(240), Fin(323)>>, <<Fin(243), Fin(322)>>, <<Fin(243), Fin(325)>> }

ChildConstruct == [elapsed |-> 0, updates |-> 0, paints |-> 0]

CWConstruct(m) ==
    [ margin |-> Fin(m * m),
      child |-> [stimulus |-> ChildConstruct, centering |-> ChildConstruct],
      active |-> "stimulus",
      xc |-> Fin(DefaultXc), yc |-> Fin(DefaultYc),
      elapsed |-> 0, updates |-> 0,
      last_pos |-> <<Fin(DefaultYc), Fin(DefaultXc)>> ]

Sq(a) == FMul(a, a)

SquaredDistance(x, y, xc, yc) == FAdd(Sq(FSub(x, xc)), Sq(FSub(y, yc)))

SelectActive_InclusiveMargin(w, y, x) ==
    IF FLt(x, Fin(0)) \/ ~FLt(SquaredDistance(x, y, w.xc, w.yc), w.margin)
    THEN "centering"
    ELSE "stimulus"

SelectActive(w, y, x) ==
    IF FLt(x, Fin(0)) \/ FGt(SquaredDistance(x, y, w.xc, w.yc), w.margin)
    THEN "centering"
    ELSE "stimulus"

\* the child's own update(), seen from the wrapper: one more call
ChildUpdate(c) == [c EXCEPT !.updates = c.updates + 1]

DelegateUpdate_Both(children, a, e) ==
    [k \in {"stimulus", "centering"} |->
        ChildUpdate([children[k] EXCEPT !.elapsed = e])]

DelegateUpdate(children, a, e) ==
    [children EXCEPT ![a] = ChildUpdate([children[a] EXCEPT !.elapsed = e])]

CWUpdateResult(w, y, x) ==
    LET a == SelectActive(w, y, x)
    IN [w EXCEPT !.active = a,
                 !.child = DelegateUpdate(w.child, a, w.elapsed),
                 !.last_pos = <<y, x>>,
                 !.updates = w.updates + 1]

CWPaintResult(w, width, height) ==
    [w EXCEPT !.xc = Fin(width \div 2),
              !.yc = Fin(height \div 2),
              !.child = [w.child EXCEPT ![w.active].paints = 1]]

----------------------------------------------------------------------------
(* ShockStimulus *)

MaxBurst == 5

DefaultBurstFreq == 50
DefaultPulseAmp == 3
DefaultBurstN == 5
DefaultPulseDurMs == 2

\* configurations whose pulse fits in the burst period (pause >= 0), in
\* whole milliseconds
BurstFreqs == {50, 100}
PulseAmps == {1, 3}
PulseDurs == {2, 5}
BurstNs == 0 .. MaxBurst
Durations == {0, 1, 2}

DigitChar(d) ==
    CASE d = 0 -> "0" [] d = 1 -> "1" [] d = 2 -> "2" [] d = 3 -> "3"
      [] d = 4 -> "4" [] d = 5 -> "5" [] d = 6 -> "6" [] d = 7 -> "7"
      [] d = 8 -> "8" [] d = 9 -> "9"

RECURSIVE Str(_)
Str(n) == IF n < 10 THEN <<DigitChar(n)>>
          ELSE Str(n \div 10) \o <<DigitChar(n % 10)>>

RECURSIVE ZFill(_, _)
ZFill(s, width) == IF Len(s) >= width THEN s ELSE ZFill(<<"0">> \o s, width)

\* int(255 * pulse_amp / 3.5)
AmpDac(amp) == (255 * amp * 10) \div 35

Mex(amp, dur) == <<"s", "h", "o", "c", "k">> \o Str(AmpDac(amp)) \o ZFill(Str(dur), 3)

\* 1/burst_freq - pulse_dur_ms/1000, in milliseconds
Pause(freq, dur) == (1000 \div freq) - dur

ShockConstruct(freq, amp, n, dur, duration) ==
    [ elapsed |-> 0, duration |-> duration,
      burst_freq |-> freq, pulse_dur_ms |-> dur, burst_n |-> n,
      pulse_amp_mA |-> amp, pause |-> Pause(freq, dur),
      mex |-> Mex(amp, dur),
      pc |-> "idle", i |-> 0, log |-> <<>>, updates |-> 0,
      failed |-> 0, frames |-> 0 ]

\* the command start() writes to the pyboard
WrittenCommand(s) == <<"s", "h", "o", "c", "k", "2", "1", "8", "0", "0", "2">>

WriteEvent(c) == [kind |-> "write", cmd |-> c, hold |-> 0]
SleepEvent(p) == [kind |-> "sleep", cmd |-> <<>>, hold |-> p]

InRange_Inclusive(i, n) == i <= n

\* i in range(n)
InRange(i, n) == i < n

----------------------------------------------------------------------------
(* Stimulus.get_state and MovingConstantly *)

DefaultMmPx == 1
DefaultMonitorRate == 60
DefaultOutputShape == 100

XVels == {0, 60, 120}
YVels == {0, 60}

Str0 == <<"str", 0>>
ShapeValue(n) == <<"tuple", n>>
Background == <<"obj", 1>>

Callable(v) == v[1] = "callable"

\* key[0] for the attribute names of the instance
FirstChar(k) == IF k \in {"_started", "_background"} THEN "_" ELSE "a"

\* (vel / mm_px) / monitor_rate
ShiftFrame(v, mm_px, monitor_rate) == (v \div mm_px) \div monitor_rate

\* the instance dictionary after MovingConstantly.__init__
MCDict(xv, yv) ==
    [k \in {"_started", "elapsed", "duration", "name", "output_shape",
            "x", "y", "theta", "_background",
            "x_vel", "y_vel", "x_shift_frame", "y_shift_frame"} |->
        CASE k = "_started" -> None
          [] k = "elapsed" -> Fin(0)
          [] k = "duration" -> Fin(0)
          [] k = "name" -> Str0
          [] k = "output_shape" -> ShapeValue(DefaultOutputShape)
          [] k = "x" -> Fin(0)
          [] k = "y" -> Fin(0)
          [] k = "theta" -> Fin(0)
          [] k = "_background" -> Background
          [] k = "x_vel" -> Fin(xv)
          [] k = "y_vel" -> Fin(yv)
          [] k = "x_shift_frame" -> Fin(ShiftFrame(xv, DefaultMmPx, DefaultMonitorRate))
          [] k = "y_shift_frame" -> Fin(ShiftFrame(yv, DefaultMmPx, DefaultMonitorRate))]

NoSnapshot == [k \in {} |-> None]

MCConstruct(xv, yv) ==
    [ d |-> MCDict(xv, yv), phase |-> "update", ticks |-> 0,
      snap |-> NoSnapshot, fresh |-> FALSE, gets |-> 0 ]

GetState_AllKeys(d) == d

GetState(d) ==
    [k \in {n \in DOMAIN d : ~Callable(d[n]) /\ FirstChar(n) # "_"} |-> d[k]]

\* MovingConstantly.update
MCUpdateDict(d) ==
    [d EXCEPT !["x"] = FAdd(d["x"], d["x_shift_frame"]),
              !["y"] = FAdd(d["y"], d["y_shift_frame"])]

\* SeamlessStimulus.get_image: update(), then the warp into a new buffer
GetImageDict(d) == MCUpdateDict(d)

----------------------------------------------------------------------------
(* PerpendicularMotion, FishTrackingStimulus, TrackingStimulus *)

\* estimator.get_position() results, in the order of the returned tuple
TReadings ==
    { <<Fin(1), Fin(2), Fin(0)>>, <<Fin(3), Fin(4), Fin(1)>>,
      <<NaN, NaN, NaN>>, <<Fin(5), Fin(6), NaN>> }

PoseConstruct == [x |-> Fin(0), y |-> Fin(0), theta |-> Fin(0)]

TRConstruct ==
    [ pm |-> PoseConstruct, ft |-> PoseConstruct, ts |-> PoseConstruct,
      read |-> <<Fin(0), Fin(0), Fin(0)>>, last |-> "none", updates |-> 0 ]

\* x, y, theta = get_position(); theta adopted if finite
PerpendicularUpdate(s, r) ==
    IF IsFinite(r[3]) THEN [s EXCEPT !.theta = r[3]] ELSE s

\* y, x, theta = get_position(); all three adopted if theta is finite
FishTrackingUpdate(s, r) ==
    IF IsFinite(r[3]) THEN [s EXCEPT !.x = r[2], !.y = r[1], !.theta = r[3]]
    ELSE s

\* self.x, self.y, _ = get_position()
TrackingUpdate(s, r) == [s EXCEPT !.x = r[1], !.y = r[2]]

----------------------------------------------------------------------------
(* Constructed states *)

MCDefault == MCConstruct(0, 0)
TRDefault == TRConstruct

CLDefault == CLConstruct(Fin(10), Fin(1), FALSE, Fin(-6), None)
CWDefault == CWConstruct(2)
ShockDefault ==
    ShockConstruct(DefaultBurstFreq, DefaultPulseAmp, DefaultBurstN,
                   DefaultPulseDurMs, 0)

----------------------------------------------------------------------------
(* ClosedLoop1D: the driver's clock and update() *)

CLDriver ==
    /\ cl.elapsed[2] < MaxElapsed
    /\ cl' = [cl EXCEPT !.elapsed = FAdd(cl.elapsed, Fin(1))]
    /\ UNCHANGED <<cw, sh, mc, tr>>

CLUpdate ==
    /\ cl.updates < MaxUpdates
    /\ \E bv \in BaseVels, fv \in Readings : cl' = CLUpdateResult(cl, bv, fv)
    /\ UNCHANGED <<cw, sh, mc, tr>>

Init ==
    /\ \E bv \in BaseVels, g \in Gains, s \in BOOLEAN,
          th \in Thresholds, fx \in FixedVels :
          cl = CLConstruct(bv, g, s, th, fx)
    /\ cw = CWDefault
    /\ sh = ShockDefault
    /\ mc = MCDefault
    /\ tr = TRDefault

Next == CLDriver \/ CLUpdate

Spec == Init /\ [][Next]_vars

----------------------------------------------------------------------------
(* CenteringWrapper: the driver's clock, update() and paint() *)

CWDriver ==
    /\ cw.elapsed < MaxWElapsed
    /\ cw' = [cw EXCEPT !.elapsed = cw.elapsed + 1]
    /\ UNCHANGED <<cl, sh, mc, tr>>

CWUpdate ==
    /\ cw.updates < MaxWUpdates
    /\ \E r \in WReadings : cw' = CWUpdateResult(cw, r[1], r[2])
    /\ UNCHANGED <<cl, sh, mc, tr>>

CWPaint ==
    /\ \E width \in PaintWidths, height \in PaintHeights :
          cw' = CWPaintResult(cw, width, height)
    /\ UNCHANGED <<cl, sh, mc, tr>>

InitWrapper ==
    /\ cl = CLDefault
    /\ \E m \in Margins : cw = CWConstruct(m)
    /\ sh = ShockDefault
    /\ mc = MCDefault
    /\ tr = TRDefault

NextWrapper == CWDriver \/ CWUpdate \/ CWPaint

SpecWrapper == InitWrapper /\ [][NextWrapper]_vars

----------------------------------------------------------------------------
(* ShockStimulus: start() step by step, then the orchestrator *)

ShStart ==
    /\ sh.pc = "idle"
    /\ sh' = [sh EXCEPT !.i = 0,
                        !.pc = IF InRange(0, sh.burst_n) THEN "write" ELSE "mark"]
    /\ UNCHANGED <<cl, cw, mc, tr>>

ShWrite ==
    /\ sh.pc = "write"
    /\ sh' = [sh EXCEPT !.log = Append(sh.log, WriteEvent(WrittenCommand(sh))),
                        !.pc = "sleep"]
    /\ UNCHANGED <<cl, cw, mc, tr>>

ShSleep ==
    /\ sh.pc = "sleep"
    /\ sh' = [sh EXCEPT !.log = Append(sh.log, SleepEvent(sh.pause)),
                        !.i = sh.i + 1,
                        !.pc = IF InRange(sh.i + 1, sh.burst_n)
                               THEN "write" ELSE "mark"]
    /\ UNCHANGED <<cl, cw, mc, tr>>

ShMark_ElapsedFromDuration ==
    /\ sh.pc = "mark"
    /\ sh' = [sh EXCEPT !.elapsed = sh.duration, !.pc = "returned"]
    /\ UNCHANGED <<cl, cw, mc, tr>>

ShMark ==
    /\ sh.pc = "mark"
    /\ sh' = [sh EXCEPT !.elapsed = 1, !.pc = "returned"]
    /\ UNCHANGED <<cl, cw, mc, tr>>

\* the orchestrator discards a stimulus whose elapsed >= duration ...
ShDiscard ==
    /\ sh.pc = "returned"
    /\ sh.elapsed >= sh.duration
    /\ sh' = [sh EXCEPT !.pc = "discarded"]
    /\ UNCHANGED <<cl, cw, mc, tr>>

\* ... and otherwise runs one more tick: clock, then update()
ShTick ==
    /\ sh.pc = "returned"
    /\ sh.elapsed < sh.duration
    /\ sh.updates < MaxShockTicks
    /\ sh' = [sh EXCEPT !.elapsed = sh.elapsed + 1,
                        !.updates = sh.updates + 1]
    /\ UNCHANGED <<cl, cw, mc, tr>>

InitShock ==
    /\ cl = CLDefault
    /\ cw = CWDefault
    /\ \E freq \in BurstFreqs, amp \in PulseAmps, n \in BurstNs,
          dur \in PulseDurs, duration \in Durations :
          sh = ShockConstruct(freq, amp, n, dur, duration)
    /\ mc = MCDefault
    /\ tr = TRDefault

NextShock == ShStart \/ ShWrite \/ ShSleep \/ ShMark \/ ShDiscard \/ ShTick

SpecShock == InitShock /\ [][NextShock]_vars

----------------------------------------------------------------------------
(* ShockStimulus in its environment: a device whose write can fail, and   *)
(* the render loop of the thread that called start()                      *)

ShWriteFail_Swallowed ==
    /\ sh.pc = "write"
    /\ sh' = [sh EXCEPT !.failed = sh.i + 1, !.pc = "sleep"]
    /\ UNCHANGED <<cl, cw, mc, tr>>

\* _pyb.write raises on pulse i + 1: nothing in start() catches it, so the
\* exception leaves the loop and start()
ShWriteFail ==
    /\ sh.pc = "write"
    /\ sh' = [sh EXCEPT !.failed = sh.i + 1, !.pc = "raised"]
    /\ UNCHANGED <<cl, cw, mc, tr>>

\* start() runs its loop and its sleeps on the thread that called it
InStart(s) == s.pc \in {"write", "sleep", "mark"}

\* one frame of the render loop, on the thread that calls start()
RenderTick ==
    /\ ~InStart(sh)
    /\ sh.frames < MaxFrames
    /\ sh' = [sh EXCEPT !.frames = sh.frames + 1]
    /\ UNCHANGED <<cl, cw, mc, tr>>

NextShockEnv == NextShock \/ ShWriteFail \/ RenderTick

SpecShockEnv == InitShock /\ [][NextShockEnv]_vars

----------------------------------------------------------------------------
(* MovingConstantly under a driver that calls update() and then            *)
(* get_image() on every tick, and a logger that calls get_state()          *)

MCUpdate ==
    /\ mc.phase = "update"
    /\ mc.ticks < MaxMCTicks
    /\ mc' = [mc EXCEPT !.d = MCUpdateDict([mc.d EXCEPT !["elapsed"] = Fin(mc.ticks + 1)]),
                        !.phase = "image",
                        !.fresh = FALSE]
    /\ UNCHANGED <<cl, cw, sh, tr>>

MCGetImage ==
    /\ mc.phase = "image"
    /\ mc' = [mc EXCEPT !.d = GetImageDict(mc.d),
                        !.phase = "update",
                        !.ticks = mc.ticks + 1,
                        !.fresh = FALSE]
    /\ UNCHANGED <<cl, cw, sh, tr>>

MCGetState ==
    /\ mc.gets < MaxGets
    /\ mc' = [mc EXCEPT !.snap = GetState(mc.d),
                        !.fresh = TRUE,
                        !.gets = mc.gets + 1]
    /\ UNCHANGED <<cl, cw, sh, tr>>

InitSeamless ==
    /\ cl = CLDefault
    /\ cw = CWDefault
    /\ sh = ShockDefault
    /\ \E xv \in XVels, yv \in YVels : mc = MCConstruct(xv, yv)
    /\ tr = TRDefault

NextSeamless == MCUpdate \/ MCGetImage \/ MCGetState

SpecSeamless == InitSeamless /\ [][NextSeamless]_vars

----------------------------------------------------------------------------
(* The pose-tracking stimuli, one update() at a time *)

PMUpdate ==
    /\ tr.updates < MaxTUpdates
    /\ \E r \in TReadings :
          tr' = [tr EXCEPT !.pm = PerpendicularUpdate(tr.pm, r),
                           !.read = r, !.last = "pm",
                           !.updates = tr.updates + 1]
    /\ UNCHANGED <<cl, cw, sh, mc>>

FTUpdate ==
    /\ tr.updates < MaxTUpdates
    /\ \E r \in TReadings :
          tr' = [tr EXCEPT !.ft = FishTrackingUpdate(tr.ft, r),
                           !.read = r, !.last = "ft",
                           !.updates = tr.updates + 1]
    /\ UNCHANGED <<cl, cw, sh, mc>>

TSUpdate ==
    /\ tr.updates < MaxTUpdates
    /\ \E r \in TReadings :
          tr' = [tr EXCEPT !.ts = TrackingUpdate(tr.ts, r),
                           !.read = r, !.last = "ts",
                           !.updates = tr.updates + 1]
    /\ UNCHANGED <<cl, cw, sh, mc>>

InitTracking ==
    /\ cl = CLDefault
    /\ cw = CWDefault
    /\ sh = ShockDefault
    /\ mc = MCDefault
    /\ tr = TRConstruct

NextTracking == PMUpdate \/ FTUpdate \/ TSUpdate

SpecTracking == InitTracking /\ [][NextTracking]_vars

----------------------------------------------------------------------------
(* Properties of ClosedLoop1D *)

CLUpdated == cl'.updates # cl.updates

\* C1: with shunting enabled, once shunted is true it is still true after
\* every later update() whose base_vel is not 0, whatever the estimator
\* returns on that update.
C1_ShuntingLatch ==
    [][(CLUpdated /\ cl.shunting /\ cl.shunted /\ ~FEq(cl'.base_vel, Fin(0)))
          => cl'.shunted]_vars

\* the latch was set on a bout offset and survived a later reading below
\* the swimming threshold
C1_Witness ==
    /\ cl.shunting
    /\ cl.shunted
    /\ cl.updates >= 3
    /\ FLt(cl.fish_velocity, cl.swimming_threshold)
    /\ ~FEq(cl.base_vel, Fin(0))

\* C2: the vel that update() integrates is never greater than 50: x grows
\* by dt * vel with the vel left by the clamp, and a commanded velocity above
\* 50 is integrated as 0.
C2_SafetyClamp ==
    [][CLUpdated =>
          /\ ~FGt(cl'.vel, Fin(VelClamp))
          /\ cl'.x = FAdd(cl.x, FMul(cl'.dt, cl'.vel))
          /\ (FGt(CommandedVel(cl'), Fin(VelClamp)) =>
                 cl'.vel = Fin(0) /\ cl'.x = cl.x)]_vars

\* base_vel 10, fish_velocity -50: the law gives 60 (gain 1), clamped to 0
C2_Witness ==
    /\ cl.updates > 0
    /\ IsNone(cl.fixed_velocity)
    /\ ~cl.shunted
    /\ cl.base_vel = Fin(10)
    /\ cl.fish_velocity = Fin(-50)
    /\ cl.dt = Fin(1)
    /\ cl.vel = Fin(0)

\* the velocity law as the specification states it: swimming is decided by
\* this tick's reading, shunted is the latch after this tick
LawSwimming(s) == FLt(s.fish_velocity, s.swimming_threshold)

LawVel(s) ==
    IF IsNone(s.fixed_velocity)
    THEN FMul(IF s.shunted THEN Fin(0) ELSE Fin(1),
              FSub(s.base_vel,
                   FMul(FMul(s.fish_velocity, s.gain),
                        IF LawSwimming(s) THEN Fin(1) ELSE Fin(0))))
    ELSE IF LawSwimming(s) /\ s.base_vel # Fin(0)
         THEN s.fixed_velocity
         ELSE s.base_vel

LawExampleConfig(s) ==
    /\ s.base_vel = Fin(10)
    /\ s.gain = Fin(1)
    /\ s.swimming_threshold = Fin(-6)
    /\ ~s.shunting
    /\ IsNone(s.fixed_velocity)

\* C3: after update(), when the law's result does not exceed 50, vel is
\* that result; with base_vel 10, gain 1, threshold -6 and no shunting,
\* fish_velocity -10 gives vel 20 and fish_velocity +1 gives vel 10.
C3_VelocityLaw ==
    cl.updates > 0 =>
        /\ (~FGt(LawVel(cl), Fin(VelClamp)) => cl.vel = LawVel(cl))
        /\ (LawExampleConfig(cl) /\ cl.fish_velocity = Fin(-10) => cl.vel = Fin(20))
        /\ (LawExampleConfig(cl) /\ cl.fish_velocity = Fin(1) => cl.vel = Fin(10))

C3_Witness ==
    /\ cl.updates > 1
    /\ LawExampleConfig(cl)
    /\ cl.fish_velocity = Fin(-10)
    /\ cl.vel = Fin(20)
    /\ cl.x = Fin(20)

\* C7: no non-finite value is ever stored in fish_velocity, vel or x (a
\* non-finite estimator reading leaves fish_velocity at its last finite
\* value).
C7_StaleEstimateHeld ==
    /\ IsFinite(cl.fish_velocity)
    /\ IsFinite(cl.vel)
    /\ IsFinite(cl.x)

\* C8: shunted goes from false to true only on an update() where shunting
\* is enabled, the stimulus is swimming and this tick's fish_velocity is
\* above the threshold; without shunting, shunted is never true; shunted
\* goes back to false only on an update() where base_vel is 0.
C8_ShuntSetCondition ==
    /\ [](~cl.shunting => ~cl.shunted)
    /\ [][/\ (~cl.shunted /\ cl'.shunted) =>
                 /\ CLUpdated
                 /\ cl.shunting
                 /\ cl.fish_swimming
                 /\ FGt(cl'.fish_velocity, cl'.swimming_threshold)
          /\ (cl.shunted /\ ~cl'.shunted) =>
                 /\ CLUpdated
                 /\ cl'.base_vel = Fin(0)]_vars

\* the update() that has just set the latch: the fish swam on the tick
\* before and this tick's reading is above the threshold
C8_Witness ==
    /\ cl.shunting
    /\ cl.shunted
    /\ cl.updates = 2
    /\ ~cl.fish_swimming
    /\ FGt(cl.fish_velocity, cl.swimming_threshold)

----------------------------------------------------------------------------
(* Properties of CenteringWrapper *)

CWUpdated == cw'.updates # cw.updates

Other(a) == IF a = "stimulus" THEN "centering" ELSE "stimulus"

NegativeSentinel(pos) == FLt(pos[2], Fin(0))

TooFar(pos, w) ==
    LET dx == FSub(pos[2], w.xc)
        dy == FSub(pos[1], w.yc)
    IN FGt(FAdd(FMul(dx, dx), FMul(dy, dy)), w.margin)

\* C4: after every update(), active is the centering stimulus if this
\* tick's position is the negative sentinel or its squared distance from
\* (xc, yc) is strictly greater than margin, and the primary stimulus
\* otherwise, whichever child was active before.
C4_Selection ==
    [][CWUpdated =>
          cw'.active = IF NegativeSentinel(cw'.last_pos) \/ TooFar(cw'.last_pos, cw)
                       THEN "centering" ELSE "stimulus"]_vars

\* back to the primary stimulus, on the margin itself, after a tick on
\* which the centering stimulus ran
C4_Witness ==
    /\ cw.updates >= 2
    /\ cw.active = "stimulus"
    /\ cw.child.centering.updates >= 1
    /\ SquaredDistance(cw.last_pos[2], cw.last_pos[1], cw.xc, cw.yc) = cw.margin

\* C5: every update() of the wrapper updates exactly one child, the active
\* one, after copying the wrapper's elapsed into it; the other child is
\* unchanged.
C5_Delegation ==
    [][CWUpdated =>
          /\ cw'.child[cw'.active].updates = cw.child[cw'.active].updates + 1
          /\ cw'.child[cw'.active].elapsed = cw.elapsed
          /\ cw'.child[Other(cw'.active)] = cw.child[Other(cw'.active)]]_vars

\* both children have run, at different times
C5_Witness ==
    /\ cw.child.stimulus.updates >= 1
    /\ cw.child.centering.updates >= 1
    /\ cw.child.stimulus.elapsed < cw.child.centering.elapsed
    /\ cw.active = "centering"

----------------------------------------------------------------------------
(* Properties of ShockStimulus *)

Writes(log) == {j \in 1 .. Len(log) : log[j].kind = "write"}

\* C6: one start() issues exactly burst_n pulse commands, each followed by
\* one hold of length pause before the next command, and none once the
\* burst is complete.
C6_BurstCount ==
    /\ \A j \in 1 .. Len(sh.log) :
          /\ (j % 2 = 1) => sh.log[j].kind = "write"
          /\ (j % 2 = 0) => sh.log[j].kind = "sleep" /\ sh.log[j].hold = sh.pause
    /\ Cardinality(Writes(sh.log)) <= sh.burst_n
    /\ sh.pc \in {"mark", "returned", "discarded"} =>
          /\ Cardinality(Writes(sh.log)) = sh.burst_n
          /\ Len(sh.log) = 2 * sh.burst_n

\* the burst of the specification's example, complete and discarded
C6_Witness ==
    /\ sh.pc = "discarded"
    /\ sh.burst_n = 5
    /\ sh.burst_freq = 50
    /\ sh.pulse_dur_ms = 2
    /\ Cardinality(Writes(sh.log)) = 5

\* C9: every pulse command start() sends is the command built at
\* construction from pulse_amp and pulse_dur_ms.
C9_CommandEncoding ==
    \A j \in Writes(sh.log) : sh.log[j].cmd = Mex(sh.pulse_amp_mA, sh.pulse_dur_ms)

\* C10: when start() has returned, elapsed >= duration, so the orchestrator
\* discards the stimulus with no further update().
C10_Completion ==
    sh.pc = "returned" /\ sh.updates = 0 => sh.elapsed >= sh.duration

----------------------------------------------------------------------------
(* Further properties of ClosedLoop1D *)

\* C15: on every tick where base_vel is exactly 0, after update() shunted
\* is false and fish_swimming is false, for every reading and prior state.
C15_DisabledState ==
    (cl.updates > 0 /\ cl.base_vel = Fin(0)) => (~cl.shunted /\ ~cl.fish_swimming)

\* C15 as the code has it: with base_vel 0 after update() shunted is false,
\* and fish_swimming is whatever this tick's bout detection says (true iff
\* the reading is below swimming_threshold).
C15_DisabledStateAmended ==
    [][(CLUpdated /\ cl'.base_vel = Fin(0)) =>
          /\ ~cl'.shunted
          /\ cl'.fish_swimming = FLt(cl'.fish_velocity, cl'.swimming_threshold)]_vars

\* base_vel 0 with shunting enabled and a reading below the threshold: the
\* latch is open and the fish counts as swimming
C15_Witness ==
    /\ cl.updates >= 2
    /\ cl.shunting
    /\ cl.base_vel = Fin(0)
    /\ cl.fish_velocity = Fin(-10)
    /\ cl.fish_swimming
    /\ ~cl.shunted

\* C16: after a swimming tick bout_start is the elapsed time of the first
\* tick of the current run of swimming ticks and bout_stop is None; after a
\* tick that is not swimming bout_start is None and bout_stop is set.
C16_BoutMarkers ==
    /\ [](cl.updates > 0 =>
            IF FLt(cl.fish_velocity, cl.swimming_threshold)
            THEN IsNone(cl.bout_stop) /\ ~IsNone(cl.bout_start)
            ELSE IsNone(cl.bout_start) /\ ~IsNone(cl.bout_stop))
    /\ [][(CLUpdated /\ FLt(cl'.fish_velocity, cl'.swimming_threshold)) =>
             cl'.bout_start = IF cl.fish_swimming THEN cl.bout_start
                              ELSE cl'.elapsed]_vars

\* C19: with shunting enabled, fixed_velocity None and base_vel not 0, on
\* every tick where the fish stops swimming (swimming after the previous
\* tick, not after this one) shunted is true after that tick.
C19_ShuntAtSwimOffset ==
    [][(/\ CLUpdated
        /\ cl.shunting
        /\ IsNone(cl.fixed_velocity)
        /\ cl'.base_vel # Fin(0)
        /\ cl.fish_swimming
        /\ ~cl'.fish_swimming) => cl'.shunted]_vars

----------------------------------------------------------------------------
(* Further properties of ShockStimulus *)

\* C11: if the device write fails on pulse k, start() issues no pulse
\* command after the failed one, does not retry it, and the failure reaches
\* the caller of start().
C11_DeviceFailure ==
    sh.failed > 0 =>
        /\ sh.pc = "raised"
        /\ Cardinality(Writes(sh.log)) = sh.failed - 1
        /\ Len(sh.log) = 2 * (sh.failed - 1)
        /\ sh.elapsed = 0

\* the write of the third pulse of a longer burst failed
C11_Witness ==
    /\ sh.failed = 3
    /\ sh.burst_n > 3
    /\ sh.pc = "raised"
    /\ Cardinality(Writes(sh.log)) = 2

C14_BurstIsolation ==
    (/\ sh.pc \in {"write", "sleep"}
     /\ Cardinality(Writes(sh.log)) >= 1
     /\ sh.frames < MaxFrames) => ENABLED RenderTick

----------------------------------------------------------------------------
(* Properties of get_state, MovingConstantly and the tracking stimuli *)

PublicNames ==
    {"elapsed", "duration", "name", "output_shape", "x", "y", "theta",
     "x_vel", "y_vel", "x_shift_frame", "y_shift_frame"}

\* C13: get_state() changes no attribute, two calls with no update() in
\* between return identical mappings, and the mapping holds exactly the
\* attributes whose name does not start with '_' and whose value is not
\* callable, with their current values.
C13_PureSnapshot ==
    /\ [](mc.fresh =>
            /\ DOMAIN mc.snap = PublicNames
            /\ \A k \in PublicNames : mc.snap[k] = mc.d[k])
    /\ [][mc'.gets # mc.gets =>
             /\ mc'.d = mc.d
             /\ (mc.fresh => mc'.snap = mc.snap)]_vars

\* a second get_state() right after the first, on a stimulus that has moved
C13_Witness ==
    /\ mc.gets = 2
    /\ mc.fresh
    /\ mc.ticks >= 1
    /\ mc.snap["x"] # Fin(0)

\* C17: with one update() and then one get_image() per tick, after k ticks
\* x = k * x_shift_frame and y = k * y_shift_frame, and get_image() itself
\* does not change x, y or theta.
C17_OneDeltaPerTick ==
    /\ [](mc.phase = "update" =>
            /\ mc.d["x"] = FMul(Fin(mc.ticks), mc.d["x_shift_frame"])
            /\ mc.d["y"] = FMul(Fin(mc.ticks), mc.d["y_shift_frame"]))
    /\ [][mc'.ticks # mc.ticks =>
             /\ mc'.d["x"] = mc.d["x"]
             /\ mc'.d["y"] = mc.d["y"]
             /\ mc'.d["theta"] = mc.d["theta"]]_vars

\* C18: on a tick where the orientation returned by the estimator is not
\* finite, update() leaves x, y and theta of the stimulus as they were.
C18_StalePoseGuard ==
    [][(tr'.updates # tr.updates /\ ~IsFinite(tr'.read[3])) =>
          /\ tr'.pm = tr.pm
          /\ tr'.ft = tr.ft
          /\ tr'.ts = tr.ts]_vars

====
